---- MODULE Spec2Model ----
(***************************************************************************)
(* Swarm health monitor (swarm-health-monitor.py): the check cycle         *)
(* run_check, the main loop that repeats it, the schedule store            *)
(* (StateManager), the qBittorrent gateway (QBittorrentAPI) and the remote *)
(* client's priority queue the gateway's requests act on.                  *)
(*                                                                         *)
(* One action is one step of main or run_check; a gateway method is taken  *)
(* whole (login included), its outcome drawn from the outcomes the remote  *)
(* client can produce.  `log` is the sequence of HTTP requests sent since  *)
(* the current cycle started.                                              *)
(***************************************************************************)
EXTENDS Integers, Sequences, FiniteSets, TLC

\* ------------------------------------------------------------------ bounds
\* Torrent identities (the 'hash' field) the remote client may report.
Ids == {"A", "B", "C"}
\* The torrents of the runs that also explore failures, signals and time.
IdsSmall == {"A", "B"}

\* The clock runs from 0 to MaxTime ticks; TicksPerDay ticks make one day.
MaxTime == 2
TicksPerDay == 2
\* Check cycles started by one run of main.
MaxCycles == 2
\* Failures (network error, non-200 status, failed login, failed write) the
\* environment injects in one run of main.
MaxFaults == 2
\* Requests a caller of the gateway on its own sends in one run.
MaxRequests == 4
\* Seeder counts and thresholds of the runs of the classifier on its own.
MaxSeeders == 6

\* ------------------------------------------------------- configuration
\* Both intervals are read from the environment (defaults: 30 days, 24 hours);
\* here one day between checks of a torrent and one tick between cycles.
CHECK_INTERVAL_DAYS == 1
\* RUN_INTERVAL_HOURS * 3600, in ticks
run_interval_seconds == 1
CRITICAL_SEEDERS == 1
RARE_SEEDERS == 2
LOW_SEEDERS == 5
\* run_check saves the store whenever checked_count is a multiple of this
\* (50 in the source; 2 here, so that listings of two or three torrents
\* reach a checkpoint).
CheckpointEvery == 2

UploadingStates == {"uploading", "stalledUP", "forcedUP"}
\* Mutant of PausedStates: the stopped variants are left out.
PausedOnly == {"pausedUP", "pausedDL"}

PausedStates == {"pausedUP", "pausedDL", "stoppedUP", "stoppedDL"}

None == "None"
\* A store without entries.
EmptyStore == [h \in {} |-> None]

VARIABLES
  pc,                  \* position in main / run_check
  shutdown_requested,  \* the global flag set by signal_handler
  now,                 \* the wall clock, in ticks
  cycles,              \* check cycles started so far
  faults,              \* failures injected so far
  cfg,                 \* SET_PRIORITIES, RESUME_RARE, RESUME_CRITICAL
  state,               \* StateManager.state["torrents"]: hash -> entry
  disk,                \* the "torrents" mapping of the state file
  authenticated,       \* QBittorrentAPI._authenticated
  queue,               \* the remote client's priority queue, front first
  torrents,            \* run_check: the listing
  torrents_to_check,   \* run_check: the due torrents, in listing order
  i,                   \* index of the loop run_check is in
  critical_torrents, rare_torrents, low_torrents,
  checked_count, actions_taken,
  sleep_until,         \* main: end of the idle wait
  log,                 \* requests sent in the current cycle
  state0,              \* history: the store as the current cycle found it
  disk0,               \* history: the state file as the current cycle found it
  checked_at,          \* history: the tick at which each entry was recorded
  cycle                \* history of the current cycle (see NewCycle)

vars == <<pc, shutdown_requested, now, cycles, faults, cfg, state, disk,
          authenticated, queue, torrents, torrents_to_check, i,
          critical_torrents, rare_torrents, low_torrents, checked_count,
          actions_taken, sleep_until, log, state0, disk0, checked_at, cycle>>

\* ------------------------------------------------------------ helpers
Range(s) == {s[k] : k \in 1..Len(s)}

RECURSIVE SeqMax(_)
SeqMax(s) == IF s = <<>> THEN 0
             ELSE LET m == SeqMax(Tail(s)) IN IF Head(s) > m THEN Head(s) ELSE m

\* All orderings of the set S, as sequences without repetition.
Perms(S) == {s \in [1..Cardinality(S) -> S] : \A a, b \in 1..Cardinality(S) : s[a] = s[b] => a = b}

Hashes(ts) == [k \in 1..Len(ts) |-> ts[k].hash]

\* ------------------------------------------------------- StateManager
\* datetime.now().isoformat(): the timestamp as text, date part and time part.
isoformat(t) == [date |-> t \div TicksPerDay, time |-> t % TicksPerDay]

\* datetime.fromisoformat
fromisoformat(s) == s.date * TicksPerDay + s.time

\* timedelta(days = d), in ticks
timedelta(d) == d * TicksPerDay

\* get_last_checked: <<>> stands for None (no entry), else <<timestamp>>.
get_last_checked(st, torrent_hash) ==
  IF torrent_hash \in DOMAIN st THEN <<st[torrent_hash].last_checked>> ELSE <<>>

\* Mutant of needs_check: due only after the boundary.
needs_check_late(st, torrent_hash, interval_days, t) ==
  LET last_checked == get_last_checked(st, torrent_hash) IN
    IF last_checked = <<>> THEN TRUE
    ELSE t > fromisoformat(last_checked[1]) + timedelta(interval_days)

needs_check(st, torrent_hash, interval_days, t) ==
  LET last_checked == get_last_checked(st, torrent_hash) IN
    IF last_checked = <<>> THEN TRUE
    ELSE t >= fromisoformat(last_checked[1]) + timedelta(interval_days)

\* Mutant of update_torrent: a torrent without entry gets none.
update_known_only(st, torrent_hash, torrent_name, seeder_count, classification, t) ==
  [h \in DOMAIN st |->
     IF h = torrent_hash
     THEN [name |-> torrent_name,
           last_checked |-> isoformat(t),
           last_seeder_count |-> seeder_count,
           last_classification |-> classification]
     ELSE st[h]]

update_torrent(st, torrent_hash, torrent_name, seeder_count, classification, t) ==
  [h \in DOMAIN st \cup {torrent_hash} |->
     IF h = torrent_hash
     THEN [name |-> torrent_name,
           last_checked |-> isoformat(t),
           last_seeder_count |-> seeder_count,
           last_classification |-> classification]
     ELSE st[h]]

\* Mutant of cleanup_removed_torrents: nothing is removed.
cleanup_nothing(st, current_hashes) == st

cleanup_removed_torrents(st, current_hashes) ==
  LET current_set == Range(current_hashes)
      removed == {h \in DOMAIN st : h \notin current_set}
  IN [h \in DOMAIN st \ removed |-> st[h]]

Tiers == {"CRITICAL", "RARE", "LOW", "HEALTHY", "UNKNOWN"}

get_stats(st) ==
  [c \in Tiers |-> Cardinality({h \in DOMAIN st : st[h].last_classification = c})]

\* ------------------------------------------- classifier and estimator
\* Mutant of classify_torrent: strict comparisons.
classify_torrent_strict(seeder_count) ==
  IF seeder_count < CRITICAL_SEEDERS THEN "CRITICAL"
  ELSE IF seeder_count < RARE_SEEDERS THEN "RARE"
  ELSE IF seeder_count < LOW_SEEDERS THEN "LOW"
  ELSE "HEALTHY"

\* Mutant of classify_with: the RARE threshold is not looked at.
classify_without_rare(seeder_count, critical, rare, low) ==
  IF seeder_count <= critical THEN "CRITICAL"
  ELSE IF seeder_count <= low THEN "LOW"
  ELSE "HEALTHY"

\* classify_torrent, with the three thresholds it reads from the module's
\* globals (set from the environment at import) as parameters.
classify_with(seeder_count, critical, rare, low) ==
  IF seeder_count <= critical THEN "CRITICAL"
  ELSE IF seeder_count <= rare THEN "RARE"
  ELSE IF seeder_count <= low THEN "LOW"
  ELSE "HEALTHY"

classify_torrent(seeder_count) ==
  classify_with(seeder_count, CRITICAL_SEEDERS, RARE_SEEDERS, LOW_SEEDERS)

\* Mutant of our_contribution: the torrent's own state is not looked at.
our_contribution_never(torrent) == 0

our_contribution(torrent) == IF torrent.state \in UploadingStates THEN 1 ELSE 0

\* get_seeder_count asks the trackers only when both aggregate counts are 0.
asks_trackers(torrent) == ~(torrent.num_complete > 0) /\ ~(torrent.num_seeds > 0)

\* get_seeder_count, given what get_torrent_trackers returned (the num_seeds
\* of each tracker; <<>> when it was not asked or the call failed).
get_seeder_count(torrent, trackers) ==
  IF torrent.num_complete > 0 THEN torrent.num_complete
  ELSE IF torrent.num_seeds > 0 THEN torrent.num_seeds + our_contribution(torrent)
  ELSE LET max_seeds == SeqMax(trackers) IN
         IF max_seeds > 0 THEN max_seeds ELSE our_contribution(torrent)

\* --------------------------------------------------- the remote client
\* What the client may report for torrent h in /torrents/info.
Profiles ==
  { [state |-> "pausedDL",  num_complete |-> 1,  num_seeds |-> 0],
    [state |-> "pausedUP",  num_complete |-> 3,  num_seeds |-> 0],
    [state |-> "stalledUP", num_complete |-> 10, num_seeds |-> 0],
    [state |-> "stalledUP", num_complete |-> 0,  num_seeds |-> 1],
    [state |-> "stoppedDL", num_complete |-> 0,  num_seeds |-> 0] }

ProfilesSmall ==
  { [state |-> "pausedDL",  num_complete |-> 1,  num_seeds |-> 0],
    [state |-> "stoppedDL", num_complete |-> 0,  num_seeds |-> 0] }

ProfilesOne == { [state |-> "stoppedDL", num_complete |-> 0,  num_seeds |-> 0] }

Torrent(h, p) == [hash |-> h, name |-> h, state |-> p.state,
                  num_complete |-> p.num_complete, num_seeds |-> p.num_seeds]

\* Every listing of torrents among `ids`: distinct torrents in any order,
\* each with any profile.
Listings(ids, profiles) ==
  UNION {{[k \in 1..Len(order) |-> Torrent(order[k], prof[k])] :
            prof \in [1..Len(order) -> profiles]} :
         order \in UNION {Perms(S) : S \in SUBSET ids}}

\* What /torrents/trackers may answer: the num_seeds of each tracker.
TrackerReplies == {<<>>, <<2, 0>>, <<0, 7>>}
TrackerRepliesSmall == {<<>>, <<0, 7>>}
TrackerRepliesOne == {<<>>}

\* /torrents/topPrio: the torrent moves to the front of the queue.
topPrio(q, h) ==
  IF h \in Range(q) THEN <<h>> \o SelectSeq(q, LAMBDA x : x # h) ELSE q

\* /torrents/decreasePrio: the torrent moves down by one position.
decreasePrio(q, h) ==
  IF \E k \in 1..(Len(q) - 1) : q[k] = h
  THEN LET k == CHOOSE k \in 1..(Len(q) - 1) : q[k] = h IN
         [q EXCEPT ![k] = q[k + 1], ![k + 1] = h]
  ELSE q

Apply(q, op, h) == IF op = "topPrio" THEN topPrio(q, h)
                   ELSE IF op = "decreasePrio" THEN decreasePrio(q, h)
                   ELSE q

RECURSIVE ApplyAll(_, _, _)
ApplyAll(q, ops, h) ==
  IF ops = <<>> THEN q ELSE ApplyAll(Apply(q, Head(ops), h), Tail(ops), h)

\* The client's queue once it holds exactly the listed torrents: the ones it
\* had keep their order, the new ones join at the back in the order `added`.
Requeue(q, hashes, added) ==
  SelectSeq(q, LAMBDA x : x \in Range(hashes)) \o added

Req(op, h) == [op |-> op, hash |-> h]

\* ----------------------------------------------------- QBittorrentAPI
\* Each method is the set of its possible outcomes: the requests it sent, the
\* value it returned, _authenticated afterwards, the remote queue afterwards
\* and the number of failures the remote client produced (0 or 1).

\* login: "Ok." sets _authenticated; any other answer or a connection error
\* leaves it as it was.
login(auth) ==
  { [ok |-> TRUE,  auth |-> TRUE, sent |-> <<Req("login", None)>>, fault |-> 0],
    [ok |-> FALSE, auth |-> auth, sent |-> <<Req("login", None)>>, fault |-> 1] }

\* "if not self._authenticated: if not self.login(): return ..."
\* Mutant of ensure_login: the request is sent without logging in.
ensure_login_skipped(auth) ==
  {[ok |-> TRUE, auth |-> auth, sent |-> <<>>, fault |-> 0]}

ensure_login(auth) ==
  IF auth THEN {[ok |-> TRUE, auth |-> TRUE, sent |-> <<>>, fault |-> 0]}
  ELSE login(auth)

\* `answers` are the listings the remote client may answer with.
get_torrents(auth, answers) ==
  UNION { IF ~pre.ok
          THEN {[value |-> <<>>, auth |-> pre.auth, sent |-> pre.sent, fault |-> pre.fault]}
          ELSE {[value |-> l, auth |-> pre.auth,
                 sent |-> pre.sent \o <<Req("info", None)>>, fault |-> pre.fault] :
                  l \in answers}
               \cup
               {[value |-> <<>>, auth |-> FALSE,
                 sent |-> pre.sent \o <<Req("info", None)>>, fault |-> pre.fault + 1]}
        : pre \in ensure_login(auth) }

get_torrent_trackers(auth, torrent_hash, answers) ==
  UNION { IF ~pre.ok
          THEN {[value |-> <<>>, auth |-> pre.auth, sent |-> pre.sent, fault |-> pre.fault]}
          ELSE {[value |-> r, auth |-> pre.auth,
                 sent |-> pre.sent \o <<Req("trackers", torrent_hash)>>,
                 fault |-> pre.fault] : r \in answers}
               \cup
               {[value |-> <<>>, auth |-> pre.auth,
                 sent |-> pre.sent \o <<Req("trackers", torrent_hash)>>,
                 fault |-> pre.fault + 1]}
        : pre \in ensure_login(auth) }

resume_torrent(auth, torrent_hash) ==
  UNION { IF ~pre.ok
          THEN {[ok |-> FALSE, auth |-> pre.auth, sent |-> pre.sent, fault |-> pre.fault]}
          ELSE {[ok |-> TRUE, auth |-> pre.auth,
                 sent |-> pre.sent \o <<Req("resume", torrent_hash)>>,
                 fault |-> pre.fault],
                [ok |-> FALSE, auth |-> pre.auth,
                 sent |-> pre.sent \o <<Req("resume", torrent_hash)>>,
                 fault |-> pre.fault + 1]}
        : pre \in ensure_login(auth) }

\* Mutant of post_steps: the steps after a failed one are posted all the same.
post_steps_through(pre, q, h, steps) ==
  { [ok |-> done = Len(steps),
     auth |-> pre.auth,
     sent |-> pre.sent \o [k \in 1..Len(steps) |-> Req(steps[k], h)],
     queue |-> ApplyAll(q, SubSeq(steps, 1, done), h),
     fault |-> pre.fault + (IF done < Len(steps) THEN 1 ELSE 0)]
    : done \in 0..Len(steps) }

\* The requests `steps` posted one after the other for torrent h; the method
\* returns False at the first one that fails and posts nothing more.  done is
\* the number of requests that succeeded.
post_steps(pre, q, h, steps) ==
  { [ok |-> done = Len(steps),
     auth |-> pre.auth,
     sent |-> pre.sent \o
              [k \in 1..(IF done < Len(steps) THEN done + 1 ELSE done) |-> Req(steps[k], h)],
     queue |-> ApplyAll(q, SubSeq(steps, 1, done), h),
     fault |-> pre.fault + (IF done < Len(steps) THEN 1 ELSE 0)]
    : done \in 0..Len(steps) }

priority_method(auth, q, h, steps) ==
  UNION { IF ~pre.ok
          THEN {[ok |-> FALSE, auth |-> pre.auth, sent |-> pre.sent, queue |-> q,
                 fault |-> pre.fault]}
          ELSE post_steps(pre, q, h, steps)
        : pre \in ensure_login(auth) }

set_top_priority(auth, q, torrent_hash) ==
  priority_method(auth, q, torrent_hash, <<"topPrio">>)

set_rare_priority(auth, q, torrent_hash) ==
  priority_method(auth, q, torrent_hash, <<"topPrio", "decreasePrio">>)

\* Mutant of set_low_priority: one decrease step only.
set_low_priority_once(auth, q, torrent_hash) ==
  priority_method(auth, q, torrent_hash, <<"topPrio", "decreasePrio">>)

set_low_priority(auth, q, torrent_hash) ==
  priority_method(auth, q, torrent_hash, <<"topPrio", "decreasePrio", "decreasePrio">>)

\* save_state: the file is rewritten, or the write fails and is only logged.
save_state(st, file) ==
  { [ok |-> TRUE, file |-> st, fault |-> 0], [ok |-> FALSE, file |-> file, fault |-> 1] }

\* ------------------------------------------------------------- main
\* History of the current cycle, kept for the properties: how run_check
\* returned, whether every call succeeded so far, the outcome of the final
\* save, the time FilterDue ran, whether CheckEach was cut short, the torrents
\* whose tracker query failed, the number of priority and resume calls
\* that returned False and what get_torrent_trackers returned for each
\* torrent checked (<<>> when it was not called).
NewCycle == [ended |-> "running", clean |-> TRUE, saved |-> "no",
             filter_time |-> -1, interrupted |-> FALSE,
             tracker_failed |-> {}, failed_actions |-> 0,
             trackers |-> EmptyStore]

AllOn == [SET_PRIORITIES |-> TRUE, RESUME_RARE |-> TRUE, RESUME_CRITICAL |-> TRUE]

Toggles == [SET_PRIORITIES : BOOLEAN, RESUME_RARE : BOOLEAN, RESUME_CRITICAL : BOOLEAN]

\* After construction: StateManager found no state file, the gateway has no
\* session, the remote client holds no torrent yet.
Init ==
  /\ pc = "loop"
  /\ shutdown_requested = FALSE
  /\ now = 0
  /\ cycles = 0
  /\ faults = 0
  /\ cfg = AllOn
  /\ state = EmptyStore
  /\ disk = EmptyStore
  /\ authenticated = FALSE
  /\ queue = <<>>
  /\ torrents = <<>>
  /\ torrents_to_check = <<>>
  /\ i = 1
  /\ critical_torrents = <<>>
  /\ rare_torrents = <<>>
  /\ low_torrents = <<>>
  /\ checked_count = 0
  /\ actions_taken = 0
  /\ sleep_until = 0
  /\ log = <<>>
  /\ state0 = EmptyStore
  /\ disk0 = EmptyStore
  /\ checked_at = EmptyStore
  /\ cycle = NewCycle

history == <<state0, disk0, checked_at>>
locals == <<torrents, torrents_to_check, i, critical_torrents, rare_torrents,
            low_torrents, checked_count, actions_taken>>
buckets == <<critical_torrents, rare_torrents, low_torrents>>

\* signal_handler
Signal ==
  /\ pc # "exit"
  /\ ~shutdown_requested
  /\ shutdown_requested' = TRUE
  /\ UNCHANGED <<pc, now, cycles, faults, cfg, state, disk, authenticated, queue,
                 locals, sleep_until, log, history, cycle>>

\* main: "while not shutdown_requested:" and the call of run_check.
MainLoop ==
  /\ pc = "loop"
  /\ IF shutdown_requested
     THEN /\ pc' = "exit"
          /\ UNCHANGED <<cycles, log, state0, disk0, cycle>>
     ELSE /\ cycles < MaxCycles
          /\ cycles' = cycles + 1
          /\ pc' = "list"
          /\ log' = <<>>
          /\ state0' = state
          /\ disk0' = disk
          /\ cycle' = NewCycle
  /\ UNCHANGED <<shutdown_requested, now, faults, cfg, state, disk, authenticated,
                 queue, locals, sleep_until, checked_at>>

\* Mutant of empty_return: run_check goes on with the empty listing.
empty_goes_on == "purge"

\* "if not torrents: return"
empty_return == "after"

\* run_check: get_torrents and the early return on an empty listing.  The
\* remote queue holds the torrents the client reports.
ListTorrents(ids, profiles) ==
  /\ pc = "list"
  /\ \E r \in get_torrents(authenticated, Listings(ids, profiles)) :
       /\ faults + r.fault <= MaxFaults
       /\ faults' = faults + r.fault
       /\ authenticated' = r.auth
       /\ log' = log \o r.sent
       /\ torrents' = r.value
       /\ IF r.value = <<>>
          THEN /\ pc' = empty_return
               /\ cycle' = [cycle EXCEPT !.ended = "empty", !.clean = (r.fault = 0)]
               /\ UNCHANGED queue
          ELSE /\ pc' = "purge"
               /\ cycle' = [cycle EXCEPT !.clean = (r.fault = 0)]
               /\ \E added \in Perms(Range(Hashes(r.value)) \ Range(queue)) :
                    queue' = Requeue(queue, Hashes(r.value), added)
  /\ UNCHANGED <<shutdown_requested, now, cycles, cfg, state, disk,
                 torrents_to_check, i, buckets, checked_count, actions_taken,
                 sleep_until, history>>

\* run_check: cleanup_removed_torrents(current_hashes)
Purge ==
  /\ pc = "purge"
  /\ state' = cleanup_removed_torrents(state, Hashes(torrents))
  /\ checked_at' = [h \in DOMAIN state' |-> checked_at[h]]
  /\ pc' = "filter"
  /\ UNCHANGED <<shutdown_requested, now, cycles, faults, cfg, disk, authenticated,
                 queue, locals, sleep_until, log, state0, disk0, cycle>>

\* run_check: the due torrents, and the return when none is due.
FilterDue ==
  /\ pc = "filter"
  /\ LET due == SelectSeq(torrents,
                  LAMBDA t : needs_check(state, t.hash, CHECK_INTERVAL_DAYS, now))
     IN /\ torrents_to_check' = due
        /\ IF due = <<>>
           THEN /\ pc' = "after"
                /\ cycle' = [cycle EXCEPT !.ended = "nothing_due", !.filter_time = now]
           ELSE /\ pc' = "check"
                /\ cycle' = [cycle EXCEPT !.filter_time = now]
  /\ i' = 1
  /\ UNCHANGED <<shutdown_requested, now, cycles, faults, cfg, state, disk,
                 authenticated, queue, torrents, buckets, checked_count,
                 actions_taken, sleep_until, log, history>>

\* What get_seeder_count's call of the gateway did: nothing when the
\* aggregate counts decide, else get_torrent_trackers.
tracker_query(auth, torrent, answers) ==
  IF asks_trackers(torrent) THEN get_torrent_trackers(auth, torrent.hash, answers)
  ELSE {[value |-> <<>>, auth |-> auth, sent |-> <<>>, fault |-> 0]}

torrent_info(torrent, seeder_count) ==
  [hash |-> torrent.hash, name |-> torrent.name, seeders |-> seeder_count,
   state |-> torrent.state]

\* The periodic save inside the loop.
\* Mutant of checkpoint: no save inside the loop.
checkpoint_never(count, st, file) == {[ok |-> TRUE, file |-> file, fault |-> 0]}

checkpoint(count, st, file) ==
  IF count % CheckpointEvery = 0 THEN save_state(st, file)
  ELSE {[ok |-> TRUE, file |-> file, fault |-> 0]}

\* Mutant of break_target: run_check returns at once.
break_returns == "after"

\* "if shutdown_requested: ... break": the loop is left for the statements
\* that follow it.
break_target == "prio_low"

\* run_check: one iteration of "for torrent in torrents_to_check", or the end
\* of the loop (exhausted, or break on shutdown_requested).
\* Mutant of shutdown_polled: the loop does not look at the flag.
shutdown_ignored == FALSE

\* run_check: "if shutdown_requested:" at the head of each iteration.
shutdown_polled == shutdown_requested

CheckEach(answers) ==
  /\ pc = "check"
  /\ IF i > Len(torrents_to_check) \/ shutdown_polled
     THEN /\ pc' = IF i > Len(torrents_to_check) THEN "prio_low" ELSE break_target
          /\ i' = 1
          /\ cycle' = [cycle EXCEPT !.interrupted = (i <= Len(torrents_to_check))]
          /\ UNCHANGED <<state, disk, authenticated, faults, log, buckets,
                         checked_count, checked_at>>
     ELSE LET torrent == torrents_to_check[i] IN
          \E tr \in tracker_query(authenticated, torrent, answers) :
            LET seeder_count == get_seeder_count(torrent, tr.value)
                classification == classify_torrent(seeder_count)
                info == torrent_info(torrent, seeder_count)
                st == update_torrent(state, torrent.hash, torrent.name,
                                     seeder_count, classification, now)
            IN \E sv \in checkpoint(checked_count + 1, st, disk) :
                 /\ faults + tr.fault + sv.fault <= MaxFaults
                 /\ faults' = faults + tr.fault + sv.fault
                 /\ authenticated' = tr.auth
                 /\ log' = log \o tr.sent
                 /\ state' = st
                 /\ checked_at' = [h \in DOMAIN st |->
                                     IF h = torrent.hash THEN now ELSE checked_at[h]]
                 /\ disk' = sv.file
                 /\ checked_count' = checked_count + 1
                 /\ critical_torrents' =
                      IF classification = "CRITICAL"
                      THEN Append(critical_torrents, info) ELSE critical_torrents
                 /\ rare_torrents' =
                      IF classification = "RARE"
                      THEN Append(rare_torrents, info) ELSE rare_torrents
                 /\ low_torrents' =
                      IF classification = "LOW"
                      THEN Append(low_torrents, info) ELSE low_torrents
                 /\ cycle' = [cycle EXCEPT
                      !.clean = @ /\ tr.fault + sv.fault = 0,
                      !.tracker_failed =
                         IF tr.fault > 0 THEN @ \cup {torrent.hash} ELSE @,
                      !.trackers =
                         [h \in DOMAIN @ \cup {torrent.hash} |->
                            IF h = torrent.hash THEN tr.value ELSE @[h]]]
                 /\ i' = i + 1
                 /\ pc' = "check"
  /\ UNCHANGED <<shutdown_requested, now, cycles, cfg, queue, torrents,
                 torrents_to_check, actions_taken, sleep_until, state0, disk0>>

\* Mutant of count_action: a call that returned False is counted too.
count_action_always(ok, taken) == taken + 1

\* "if qbt.set_..._priority(...): actions_taken += 1", and the same for resume
count_action(ok, taken) == IF ok THEN taken + 1 ELSE taken

\* Mutant of priorities_on: no priority is set once shutdown is requested.
priorities_unless_shutdown ==
  ~shutdown_requested /\ cfg.SET_PRIORITIES /\
  (critical_torrents # <<>> \/ rare_torrents # <<>> \/ low_torrents # <<>>)

\* "if SET_PRIORITIES and (critical_torrents or rare_torrents or low_torrents)"
priorities_on ==
  cfg.SET_PRIORITIES /\
  (critical_torrents # <<>> \/ rare_torrents # <<>> \/ low_torrents # <<>>)

\* The gateway method run_check calls for a torrent of the bucket `tier`.
priority_call(tier, auth, q, torrent_hash) ==
  IF tier = "LOW" THEN set_low_priority(auth, q, torrent_hash)
  ELSE IF tier = "RARE" THEN set_rare_priority(auth, q, torrent_hash)
  ELSE set_top_priority(auth, q, torrent_hash)

\* One iteration of the priority loop over the bucket of `tier`, or the move
\* to `next` when the loop is over.
PriorityLoop(bucket, tier, next) ==
  IF ~priorities_on
  THEN /\ pc' = "resume_rare"
       /\ i' = 1
       /\ UNCHANGED <<faults, authenticated, queue, log, actions_taken, cycle>>
  ELSE IF i > Len(bucket)
  THEN /\ pc' = next
       /\ i' = 1
       /\ UNCHANGED <<faults, authenticated, queue, log, actions_taken, cycle>>
  ELSE \E r \in priority_call(tier, authenticated, queue, bucket[i].hash) :
         /\ faults + r.fault <= MaxFaults
         /\ faults' = faults + r.fault
         /\ authenticated' = r.auth
         /\ queue' = r.queue
         /\ log' = log \o r.sent
         /\ actions_taken' = count_action(r.ok, actions_taken)
         /\ cycle' = [cycle EXCEPT !.clean = @ /\ r.fault = 0,
                                   !.failed_actions = IF r.ok THEN @ ELSE @ + 1]
         /\ i' = i + 1
         /\ UNCHANGED pc

\* run_check: "for t in low_torrents: qbt.set_low_priority"
PriorityLow ==
  /\ pc = "prio_low"
  /\ PriorityLoop(low_torrents, "LOW", "prio_rare")
  /\ UNCHANGED <<shutdown_requested, now, cycles, cfg, state, disk, torrents,
                 torrents_to_check, buckets, checked_count, sleep_until, history>>

\* run_check: "for t in rare_torrents: qbt.set_rare_priority"
PriorityRare ==
  /\ pc = "prio_rare"
  /\ PriorityLoop(rare_torrents, "RARE", "prio_critical")
  /\ UNCHANGED <<shutdown_requested, now, cycles, cfg, state, disk, torrents,
                 torrents_to_check, buckets, checked_count, sleep_until, history>>

\* Mutant of PriorityCritical: the loop runs over every listed torrent.
PriorityCriticalAllListed ==
  /\ pc = "prio_critical"
  /\ PriorityLoop(torrents, "CRITICAL", "resume_rare")
  /\ UNCHANGED <<shutdown_requested, now, cycles, cfg, state, disk, torrents,
                 torrents_to_check, buckets, checked_count, sleep_until, history>>

\* run_check: "for t in critical_torrents: qbt.set_top_priority"
PriorityCritical ==
  /\ pc = "prio_critical"
  /\ PriorityLoop(critical_torrents, "CRITICAL", "resume_rare")
  /\ UNCHANGED <<shutdown_requested, now, cycles, cfg, state, disk, torrents,
                 torrents_to_check, buckets, checked_count, sleep_until, history>>

\* One iteration of a resume loop over `bucket`, enabled by `toggle`.
ResumeLoop(toggle, bucket, next) ==
  IF ~(toggle /\ bucket # <<>>) \/ i > Len(bucket)
  THEN /\ pc' = next
       /\ i' = 1
       /\ UNCHANGED <<faults, authenticated, log, actions_taken, cycle>>
  ELSE IF bucket[i].state \notin PausedStates
  THEN /\ i' = i + 1
       /\ UNCHANGED <<pc, faults, authenticated, log, actions_taken, cycle>>
  ELSE \E r \in resume_torrent(authenticated, bucket[i].hash) :
         /\ faults + r.fault <= MaxFaults
         /\ faults' = faults + r.fault
         /\ authenticated' = r.auth
         /\ log' = log \o r.sent
         /\ actions_taken' = count_action(r.ok, actions_taken)
         /\ cycle' = [cycle EXCEPT !.clean = @ /\ r.fault = 0,
                                   !.failed_actions = IF r.ok THEN @ ELSE @ + 1]
         /\ i' = i + 1
         /\ UNCHANGED pc

\* run_check: "if RESUME_RARE and rare_torrents:"
ResumeRare ==
  /\ pc = "resume_rare"
  /\ ResumeLoop(cfg.RESUME_RARE, rare_torrents, "resume_critical")
  /\ UNCHANGED <<shutdown_requested, now, cycles, cfg, state, disk, queue, torrents,
                 torrents_to_check, buckets, checked_count, sleep_until, history>>

\* run_check: "if RESUME_CRITICAL and critical_torrents:"
ResumeCritical ==
  /\ pc = "resume_critical"
  /\ ResumeLoop(cfg.RESUME_CRITICAL, critical_torrents, "save")
  /\ UNCHANGED <<shutdown_requested, now, cycles, cfg, state, disk, queue, torrents,
                 torrents_to_check, buckets, checked_count, sleep_until, history>>

\* run_check: the final save_state and the return.
Persist ==
  /\ pc = "save"
  /\ \E sv \in save_state(state, disk) :
       /\ faults + sv.fault <= MaxFaults
       /\ faults' = faults + sv.fault
       /\ disk' = sv.file
       /\ cycle' = [cycle EXCEPT !.ended = "complete",
                                 !.saved = IF sv.ok THEN "ok" ELSE "failed"]
  /\ pc' = "after"
  /\ UNCHANGED <<shutdown_requested, now, cycles, cfg, state, authenticated, queue,
                 locals, sleep_until, log, history>>

\* main: after run_check, "if shutdown_requested: break", else start the wait.
\* run_check's locals are gone.
AfterCycle ==
  /\ pc = "after"
  /\ IF shutdown_requested
     THEN pc' = "exit" /\ UNCHANGED sleep_until
     ELSE pc' = "sleep" /\ sleep_until' = now + run_interval_seconds
  /\ torrents' = <<>>
  /\ torrents_to_check' = <<>>
  /\ i' = 1
  /\ critical_torrents' = <<>>
  /\ rare_torrents' = <<>>
  /\ low_torrents' = <<>>
  /\ checked_count' = 0
  /\ actions_taken' = 0
  /\ log' = <<>>
  /\ state0' = state
  /\ disk0' = disk
  /\ cycle' = NewCycle
  /\ UNCHANGED <<shutdown_requested, now, cycles, faults, cfg, state, disk,
                 authenticated, queue, checked_at>>

\* main: "while time.time() < sleep_until and not shutdown_requested: sleep".
\* time.sleep returns after the time asked for, or later.
IdleWait ==
  /\ pc = "sleep"
  /\ IF now < sleep_until /\ ~shutdown_requested
     THEN /\ \E t \in (now + 1)..MaxTime : now' = t
          /\ UNCHANGED pc
     ELSE /\ pc' = "loop"
          /\ UNCHANGED now
  /\ UNCHANGED <<shutdown_requested, cycles, faults, cfg, state, disk, authenticated,
                 queue, locals, sleep_until, log, history, cycle>>

Next ==
  \/ Signal
  \/ MainLoop
  \/ ListTorrents(IdsSmall, ProfilesSmall)
  \/ Purge
  \/ FilterDue
  \/ CheckEach(TrackerRepliesSmall)
  \/ PriorityLow
  \/ PriorityRare
  \/ PriorityCritical
  \/ ResumeRare
  \/ ResumeCritical
  \/ Persist
  \/ AfterCycle
  \/ IdleWait

Spec == Init /\ [][Next]_vars

\* One check cycle over up to three torrents with every profile and every
\* setting of the toggles, against a remote client and a file system that
\* never fail, and without signals.
InitClean ==
  /\ pc = "loop"
  /\ shutdown_requested = FALSE
  /\ now = 0
  /\ cycles = MaxCycles - 1
  /\ faults = MaxFaults
  /\ cfg \in Toggles
  /\ state = EmptyStore
  /\ disk = EmptyStore
  /\ authenticated = FALSE
  /\ queue = <<>>
  /\ torrents = <<>>
  /\ torrents_to_check = <<>>
  /\ i = 1
  /\ critical_torrents = <<>>
  /\ rare_torrents = <<>>
  /\ low_torrents = <<>>
  /\ checked_count = 0
  /\ actions_taken = 0
  /\ sleep_until = 0
  /\ log = <<>>
  /\ state0 = EmptyStore
  /\ disk0 = EmptyStore
  /\ checked_at = EmptyStore
  /\ cycle = NewCycle

NextClean ==
  \/ MainLoop
  \/ ListTorrents(Ids, Profiles)
  \/ Purge
  \/ FilterDue
  \/ CheckEach(TrackerReplies)
  \/ PriorityLow
  \/ PriorityRare
  \/ PriorityCritical
  \/ ResumeRare
  \/ ResumeCritical
  \/ Persist
  \/ AfterCycle
  \/ IdleWait

SpecClean == InitClean /\ [][NextClean]_vars

\* ================================================================ exceptions
\* Mutant of abort_target: the exception leaves main.
abort_exits == "exit"

\* main: "except Exception as e: logging.error(...)": control is after the
\* call of run_check.
abort_target == "after"

\* An exception that no gateway or store method catches (a listing item
\* without 'hash', a timestamp fromisoformat rejects, ...) is raised at some
\* statement of run_check: the rest of the cycle is skipped; what the cycle
\* already did to the store, the file and the remote client stays.
Raise ==
  /\ pc \in {"list", "purge", "filter", "check", "prio_low", "prio_rare",
             "prio_critical", "resume_rare", "resume_critical", "save"}
  /\ faults < MaxFaults
  /\ faults' = faults + 1
  /\ pc' = abort_target
  /\ cycle' = [cycle EXCEPT !.ended = "aborted", !.clean = FALSE]
  /\ UNCHANGED <<shutdown_requested, now, cycles, cfg, state, disk, authenticated,
                 queue, locals, sleep_until, log, history>>

\* The steps of the process itself: main and run_check, on a client whose
\* torrents are all stopped and unseeded.
Step ==
  \/ MainLoop
  \/ ListTorrents(IdsSmall, ProfilesOne)
  \/ Purge
  \/ FilterDue
  \/ CheckEach(TrackerRepliesOne)
  \/ PriorityLow
  \/ PriorityRare
  \/ PriorityCritical
  \/ ResumeRare
  \/ ResumeCritical
  \/ Persist
  \/ AfterCycle
  \/ IdleWait

NextLive ==
  \/ Signal
  \/ Raise
  \/ Step

\* The process is one thread whose calls all return (every request has a
\* timeout): it keeps taking its steps.  Signals and exceptions may or may
\* not come.
SpecLive == Init /\ [][NextLive]_vars /\ WF_vars(Step)

\* ================================================================ state file
\* The state file across restarts of the process: what StateManager makes of
\* each content at startup, and what save_state leaves for the next startup.
\* Here `disk` is the whole file, [kind, torrents]; torrents is the value of
\* the "torrents" key of a well-formed document and empty otherwise.
File(kind, st) == [kind |-> kind, torrents |-> st]

\* Entries a file may hold when the process starts.
SavedStores ==
  {EmptyStore} \cup
  {update_torrent(EmptyStore, h, h, c, classify_torrent(c), 0) :
     h \in IdsSmall, c \in {0, 7}}

\* missing: no such path.  unreadable: open fails with an IOError.
\* not_json: text json.load rejects.  not_text: bytes that are not UTF-8.
\* not_object: JSON that is not an object (a list, a number, null).
\* no_torrents: a JSON object without the key "torrents".
FileContents ==
  {File(k, EmptyStore) :
     k \in {"missing", "unreadable", "not_json", "not_text", "not_object",
            "no_torrents"}}
  \cup {File("document", st) : st \in SavedStores}

\* StateManager._load_state.  outcome "ready": a state with a "torrents"
\* mapping is returned.  "unshaped": the parsed object is returned as it is,
\* without a "torrents" key.  "raised": an exception other than
\* JSONDecodeError and IOError leaves _load_state, __init__ and main
\* (UnicodeDecodeError from the read; AttributeError from data.get).
load_state(file) ==
  CASE file.kind = "missing"     -> [outcome |-> "ready", torrents |-> EmptyStore]
    [] file.kind = "unreadable"  -> [outcome |-> "ready", torrents |-> EmptyStore]
    [] file.kind = "not_json"    -> [outcome |-> "ready", torrents |-> EmptyStore]
    [] file.kind = "not_text"    -> [outcome |-> "raised", torrents |-> EmptyStore]
    [] file.kind = "not_object"  -> [outcome |-> "raised", torrents |-> EmptyStore]
    [] file.kind = "no_torrents" -> [outcome |-> "unshaped", torrents |-> EmptyStore]
    [] file.kind = "document"    -> [outcome |-> "ready", torrents |-> file.torrents]

InitLoad ==
  /\ pc = "startup"
  /\ shutdown_requested = FALSE
  /\ now = 0
  /\ cycles = 0
  /\ faults = 0
  /\ cfg = AllOn
  /\ state = EmptyStore
  /\ disk \in FileContents
  /\ authenticated = FALSE
  /\ queue = <<>>
  /\ torrents = <<>>
  /\ torrents_to_check = <<>>
  /\ i = 1
  /\ critical_torrents = <<>>
  /\ rare_torrents = <<>>
  /\ low_torrents = <<>>
  /\ checked_count = 0
  /\ actions_taken = 0
  /\ sleep_until = 0
  /\ log = <<>>
  /\ state0 = EmptyStore
  /\ disk0 = EmptyStore
  /\ checked_at = EmptyStore
  /\ cycle = NewCycle

\* main: state_manager = StateManager(STATE_FILE)
LoadState ==
  /\ pc = "startup"
  /\ LET r == load_state(disk) IN
       /\ pc' = r.outcome
       /\ state' = r.torrents
  /\ UNCHANGED <<shutdown_requested, now, cycles, faults, cfg, disk, authenticated,
                 queue, locals, sleep_until, log, history, cycle>>

\* run_check records a torrent in the store.
RecordTorrent ==
  /\ pc = "ready"
  /\ \E h \in IdsSmall, c \in {0, 7} :
       state' = update_torrent(state, h, h, c, classify_torrent(c), now)
  /\ UNCHANGED <<pc, shutdown_requested, now, cycles, faults, cfg, disk,
                 authenticated, queue, locals, sleep_until, log, history, cycle>>

\* run_check saves the store: the file becomes the document of the store, or
\* the write fails.  state0 keeps the store of the last save that succeeded.
SaveState ==
  /\ pc = "ready"
  /\ \E sv \in save_state(state, disk.torrents) :
       /\ faults + sv.fault <= MaxFaults
       /\ faults' = faults + sv.fault
       /\ disk' = IF sv.ok THEN File("document", sv.file) ELSE disk
       /\ state0' = IF sv.ok THEN state ELSE state0
  /\ UNCHANGED <<pc, shutdown_requested, now, cycles, cfg, state, authenticated,
                 queue, locals, sleep_until, log, disk0, checked_at, cycle>>

\* The process ends and is started again later: the store in memory is gone,
\* the file stays.
Restart ==
  /\ pc \in {"ready", "unshaped", "raised"}
  /\ cycles < MaxCycles
  /\ cycles' = cycles + 1
  /\ pc' = "startup"
  /\ state' = EmptyStore
  /\ \E t \in now..MaxTime : now' = t
  /\ UNCHANGED <<shutdown_requested, faults, cfg, disk, authenticated, queue,
                 locals, sleep_until, log, history, cycle>>

NextLoad ==
  \/ LoadState
  \/ RecordTorrent
  \/ SaveState
  \/ Restart

SpecLoad == InitLoad /\ [][NextLoad]_vars

\* ================================================================ estimator
\* get_seeder_count on its own: one due torrent with any combination of
\* aggregate counts (-1 is what the client reports for "not known") and
\* state, and any answer of the trackers.
ProfilesWide ==
  [state : {"stalledUP", "uploading", "pausedDL", "downloading"},
   num_complete : {-1, 0, 1, 3},
   num_seeds : {-1, 0, 2}]

TrackerRepliesWide == {<<>>, <<-1>>, <<0, 0>>, <<2, 5>>, <<5, 2>>, <<0, 1, 0>>}

\* run_check is at the check loop with one due torrent.
InitPure ==
  /\ pc = "check"
  /\ shutdown_requested = FALSE
  /\ now = 0
  /\ cycles = 1
  /\ faults = 0
  /\ cfg = AllOn
  /\ state = EmptyStore
  /\ disk = EmptyStore
  /\ authenticated \in BOOLEAN
  /\ queue = <<"A">>
  /\ \E p \in ProfilesWide :
       /\ torrents = <<Torrent("A", p)>>
       /\ torrents_to_check = <<Torrent("A", p)>>
  /\ i = 1
  /\ critical_torrents = <<>>
  /\ rare_torrents = <<>>
  /\ low_torrents = <<>>
  /\ checked_count = 0
  /\ actions_taken = 0
  /\ sleep_until = 0
  /\ log = <<>>
  /\ state0 = EmptyStore
  /\ disk0 = EmptyStore
  /\ checked_at = EmptyStore
  /\ cycle = [NewCycle EXCEPT !.filter_time = 0]

NextPure == CheckEach(TrackerRepliesWide)

SpecPure == InitPure /\ [][NextPure]_vars

\* ================================================================ classifier
\* classify_torrent on its own, under any setting of the three thresholds,
\* ordered or not: here cfg holds the thresholds, and the store the counts
\* classified and their tiers.
Thresholds ==
  [CRITICAL_SEEDERS : 0..MaxSeeders, RARE_SEEDERS : 0..MaxSeeders,
   LOW_SEEDERS : 0..MaxSeeders]

InitClassify ==
  /\ pc = "classify"
  /\ shutdown_requested = FALSE
  /\ now = 0
  /\ cycles = 1
  /\ faults = 0
  /\ cfg \in Thresholds
  /\ state = EmptyStore
  /\ disk = EmptyStore
  /\ authenticated = TRUE
  /\ queue = <<>>
  /\ torrents = <<>>
  /\ torrents_to_check = <<>>
  /\ i = 1
  /\ critical_torrents = <<>>
  /\ rare_torrents = <<>>
  /\ low_torrents = <<>>
  /\ checked_count = 0
  /\ actions_taken = 0
  /\ sleep_until = 0
  /\ log = <<>>
  /\ state0 = EmptyStore
  /\ disk0 = EmptyStore
  /\ checked_at = EmptyStore
  /\ cycle = NewCycle

\* run_check: classification = classify_torrent(seeder_count), recorded.
Classify ==
  /\ pc = "classify"
  /\ \E h \in IdsSmall \ DOMAIN state, seeder_count \in 0..(MaxSeeders + 1) :
       state' = update_torrent(state, h, h, seeder_count,
                               classify_with(seeder_count, cfg.CRITICAL_SEEDERS,
                                             cfg.RARE_SEEDERS, cfg.LOW_SEEDERS),
                               now)
  /\ UNCHANGED <<pc, shutdown_requested, now, cycles, faults, cfg, disk,
                 authenticated, queue, locals, sleep_until, log, history, cycle>>

NextClassify == Classify

SpecClassify == InitClassify /\ [][NextClassify]_vars

\* ================================================================ failing priority calls
\* One cycle over a client whose torrents are LOW and RARE ones, so that the
\* composite priority methods run, with failures.
ProfilesTiers ==
  { [state |-> "pausedUP",  num_complete |-> 3, num_seeds |-> 0],
    [state |-> "stoppedDL", num_complete |-> 2, num_seeds |-> 0] }

InitTiers ==
  /\ pc = "loop"
  /\ shutdown_requested = FALSE
  /\ now = 0
  /\ cycles = MaxCycles - 1
  /\ faults = 0
  /\ cfg = AllOn
  /\ state = EmptyStore
  /\ disk = EmptyStore
  /\ authenticated = FALSE
  /\ queue = <<>>
  /\ torrents = <<>>
  /\ torrents_to_check = <<>>
  /\ i = 1
  /\ critical_torrents = <<>>
  /\ rare_torrents = <<>>
  /\ low_torrents = <<>>
  /\ checked_count = 0
  /\ actions_taken = 0
  /\ sleep_until = 0
  /\ log = <<>>
  /\ state0 = EmptyStore
  /\ disk0 = EmptyStore
  /\ checked_at = EmptyStore
  /\ cycle = NewCycle

NextTiers ==
  \/ MainLoop
  \/ ListTorrents(Ids, ProfilesTiers)
  \/ Purge
  \/ FilterDue
  \/ CheckEach(TrackerRepliesOne)
  \/ PriorityLow
  \/ PriorityRare
  \/ PriorityCritical
  \/ ResumeRare
  \/ ResumeCritical
  \/ Persist
  \/ AfterCycle
  \/ IdleWait

SpecTiers == InitTiers /\ [][NextTiers]_vars

\* ================================================================ cancelled cycles
\* One cycle over a client with CRITICAL, RARE and LOW torrents, with
\* failures, and with the signal arriving at any point.
ProfilesActed ==
  ProfilesTiers \cup { [state |-> "pausedDL", num_complete |-> 1, num_seeds |-> 0] }

NextCancel ==
  \/ Signal
  \/ MainLoop
  \/ ListTorrents(Ids, ProfilesActed)
  \/ Purge
  \/ FilterDue
  \/ CheckEach(TrackerRepliesOne)
  \/ PriorityLow
  \/ PriorityRare
  \/ PriorityCritical
  \/ ResumeRare
  \/ ResumeCritical
  \/ Persist
  \/ AfterCycle
  \/ IdleWait

SpecCancel == InitTiers /\ [][NextCancel]_vars

\* ================================================================ gateway
\* The gateway on its own: a caller that invokes the methods of QBittorrentAPI
\* in any order, on any torrent, with any of them failing.  run_check calls
\* them in one fixed order only; the methods themselves do not depend on it.

\* QBittorrentAPI.__init__: no session yet; the client holds both torrents.
InitGateway ==
  /\ pc = "gateway"
  /\ shutdown_requested = FALSE
  /\ now = 0
  /\ cycles = 0
  /\ faults = 0
  /\ cfg = AllOn
  /\ state = EmptyStore
  /\ disk = EmptyStore
  /\ authenticated = FALSE
  /\ queue \in Perms(IdsSmall)
  /\ torrents = <<>>
  /\ torrents_to_check = <<>>
  /\ i = 1
  /\ critical_torrents = <<>>
  /\ rare_torrents = <<>>
  /\ low_torrents = <<>>
  /\ checked_count = 0
  /\ actions_taken = 0
  /\ sleep_until = 0
  /\ log = <<>>
  /\ state0 = EmptyStore
  /\ disk0 = EmptyStore
  /\ checked_at = EmptyStore
  /\ cycle = NewCycle

\* The effect of one method call on the session, the wire and the client.
Called(r, q) ==
  /\ pc = "gateway"
  /\ Len(log) + Len(r.sent) <= MaxRequests
  /\ faults + r.fault <= MaxFaults
  /\ faults' = faults + r.fault
  /\ authenticated' = r.auth
  /\ log' = log \o r.sent
  /\ queue' = q
  /\ UNCHANGED <<pc, shutdown_requested, now, cycles, cfg, state, disk, locals,
                 sleep_until, history, cycle>>

CallGetTorrents ==
  \E r \in get_torrents(authenticated, Listings(IdsSmall, ProfilesSmall)) :
    Called(r, queue)

CallGetTorrentTrackers ==
  \E h \in IdsSmall :
    \E r \in get_torrent_trackers(authenticated, h, TrackerRepliesSmall) :
      Called(r, queue)

CallResumeTorrent ==
  \E h \in IdsSmall : \E r \in resume_torrent(authenticated, h) : Called(r, queue)

CallSetTopPriority ==
  \E h \in IdsSmall :
    \E r \in set_top_priority(authenticated, queue, h) : Called(r, r.queue)

CallSetRarePriority ==
  \E h \in IdsSmall :
    \E r \in set_rare_priority(authenticated, queue, h) : Called(r, r.queue)

CallSetLowPriority ==
  \E h \in IdsSmall :
    \E r \in set_low_priority(authenticated, queue, h) : Called(r, r.queue)

NextGateway ==
  \/ CallGetTorrents
  \/ CallGetTorrentTrackers
  \/ CallResumeTorrent
  \/ CallSetTopPriority
  \/ CallSetRarePriority
  \/ CallSetLowPriority

SpecGateway == InitGateway /\ [][NextGateway]_vars

\* ================================================================ claims
Listed == Range(Hashes(torrents))
Bucketed(bucket) == {bucket[k].hash : k \in 1..Len(bucket)}
\* run_check has returned after its final save.
CycleComplete == pc = "after" /\ cycle.ended = "complete"
\* The due torrents recorded so far in this cycle, in listing order.
Checked == SubSeq(torrents_to_check, 1, checked_count)
RequestsFor(h) == SelectSeq(log, LAMBDA r : r.hash = h)
PriorityRequests == SelectSeq(log, LAMBDA r : r.op \in {"topPrio", "decreasePrio"})
IsPrefix(s, t) == Len(s) <= Len(t) /\ SubSeq(t, 1, Len(s)) = s

Position(h) == CHOOSE k \in 1..Len(queue) : queue[k] = h
Rank(h) == IF h \in Bucketed(critical_torrents) THEN 0
           ELSE IF h \in Bucketed(rare_torrents) THEN 1
           ELSE IF h \in Bucketed(low_torrents) THEN 2
           ELSE 3

\* C1: after ApplyPriorities of a cycle with priorities enabled and every
\* gateway call succeeding, the remote queue ranks every CRITICAL-bucketed
\* torrent above every RARE one, every RARE one above every LOW one, and every
\* bucketed torrent above every torrent not bucketed in the cycle.
C1_FinalOrder ==
  (CycleComplete /\ cfg.SET_PRIORITIES /\ cycle.clean) =>
    \A a, b \in Range(queue) : Rank(a) < Rank(b) => Position(a) < Position(b)

StepsOf(tier) ==
  IF tier = "LOW" THEN <<"topPrio", "decreasePrio", "decreasePrio">>
  ELSE IF tier = "RARE" THEN <<"topPrio", "decreasePrio">>
  ELSE <<"topPrio">>

RECURSIVE ExpectedRequests(_, _)
\* The requests of one tier: for each torrent of `ts` recorded with that tier,
\* in order, the tier's steps.
ExpectedRequests(ts, tier) ==
  IF ts = <<>> THEN <<>>
  ELSE LET h == Head(ts).hash IN
       (IF state[h].last_classification = tier
        THEN [k \in 1..Len(StepsOf(tier)) |-> Req(StepsOf(tier)[k], h)]
        ELSE <<>>) \o ExpectedRequests(Tail(ts), tier)

ExpectedPriorityRequests ==
  ExpectedRequests(Checked, "LOW") \o ExpectedRequests(Checked, "RARE")
    \o ExpectedRequests(Checked, "CRITICAL")

\* C2: in a cycle with priorities enabled and every gateway call succeeding,
\* the priority requests sent are, in this order, top/decrease/decrease for
\* each LOW torrent, then top/decrease for each RARE torrent, then top for
\* each CRITICAL torrent, whatever the listing order: at every moment the
\* requests sent so far are a prefix of that sequence, and when the cycle
\* ends they are the whole of it.
C2_RequestOrder ==
  (cfg.SET_PRIORITIES /\ cycle.clean) =>
    /\ IsPrefix(PriorityRequests, ExpectedPriorityRequests)
    /\ CycleComplete => PriorityRequests = ExpectedPriorityRequests

\* A completed clean cycle that had two LOW torrents and a RARE or CRITICAL one.
C2_Witness ==
  /\ CycleComplete /\ cfg.SET_PRIORITIES /\ cycle.clean
  /\ Len(low_torrents) = 2
  /\ Len(rare_torrents) + Len(critical_torrents) = 1
  /\ Len(PriorityRequests) >= 7

Reported(h) == CHOOSE t \in Range(torrents) : t.hash = h

\* The client reports exactly A, B and C with tracker-reported seeders 1, 3
\* and 10, none was checked before, and every toggle is on.
Scenario ==
  /\ Listed = {"A", "B", "C"}
  /\ Len(torrents) = 3
  /\ Reported("A").num_complete = 1
  /\ Reported("B").num_complete = 3
  /\ Reported("C").num_complete = 10
  /\ state0 = EmptyStore
  /\ cfg = AllOn

ResumeIfPaused(h) ==
  IF Reported(h).state \in PausedStates THEN <<Req("resume", h)>> ELSE <<>>

\* C4 as stated: in the scenario one cycle classifies A CRITICAL (top
\* priority, resumed if paused), B RARE (rare priority, resumed if paused) and
\* C HEALTHY (no request); the store has exactly these three entries and
\* stats() is {CRITICAL:1, RARE:1, LOW:0, HEALTHY:1, UNKNOWN:0}.
C4_ScenarioAsStated ==
  (CycleComplete /\ Scenario) =>
    /\ DOMAIN state = {"A", "B", "C"}
    /\ state["A"].last_classification = "CRITICAL"
    /\ state["B"].last_classification = "RARE"
    /\ state["C"].last_classification = "HEALTHY"
    /\ RequestsFor("A") = <<Req("topPrio", "A")>> \o ResumeIfPaused("A")
    /\ RequestsFor("B") = <<Req("topPrio", "B"), Req("decreasePrio", "B")>>
                            \o ResumeIfPaused("B")
    /\ RequestsFor("C") = <<>>
    /\ get_stats(state) = [c \in Tiers |->
         IF c \in {"CRITICAL", "RARE", "HEALTHY"} THEN 1 ELSE 0]

\* C4 amended: in the scenario B, with 3 seeders, is classified LOW (3 is
\* above RARE_SEEDERS = 2 and at most LOW_SEEDERS = 5): it gets the low
\* priority (top, decrease, decrease) and no resume; A is CRITICAL (top
\* priority, resumed if paused), C is HEALTHY (no request); the store has
\* exactly these three entries and stats() is
\* {CRITICAL:1, RARE:0, LOW:1, HEALTHY:1, UNKNOWN:0}.
C4_Scenario ==
  (CycleComplete /\ Scenario) =>
    /\ DOMAIN state = {"A", "B", "C"}
    /\ state["A"].last_classification = "CRITICAL"
    /\ state["B"].last_classification = "LOW"
    /\ state["C"].last_classification = "HEALTHY"
    /\ RequestsFor("A") = <<Req("topPrio", "A")>> \o ResumeIfPaused("A")
    /\ RequestsFor("B") = <<Req("topPrio", "B"), Req("decreasePrio", "B"),
                            Req("decreasePrio", "B")>>
    /\ RequestsFor("C") = <<>>
    /\ get_stats(state) = [c \in Tiers |->
         IF c \in {"CRITICAL", "LOW", "HEALTHY"} THEN 1 ELSE 0]

\* The scenario's cycle has ended, A having been paused.
C4_Witness ==
  /\ CycleComplete /\ Scenario
  /\ Reported("A").state \in PausedStates
  /\ Len(log) = 7

Due == Range(Hashes(torrents_to_check))
\* The recheck interval in ticks.
IntervalTicks == CHECK_INTERVAL_DAYS * TicksPerDay
\* h was recorded in this cycle / h is as the cycle found it.
Fresh(h) ==
  /\ h \in DOMAIN state
  /\ checked_at[h] = now
  /\ fromisoformat(state[h].last_checked) = now
  /\ h \in DOMAIN state0 => state[h] # state0[h]
Untouched(h) ==
  IF h \in DOMAIN state0 THEN h \in DOMAIN state /\ state[h] = state0[h]
  ELSE h \notin DOMAIN state

\* C3: once FilterDue has run in a cycle, at time filter_time: a listed
\* torrent without entry is due; a listed torrent that is not due has an entry
\* recorded at a time T with filter_time < T + interval, and it is not
\* touched in the cycle (entry unchanged, not bucketed, no request for it); a
\* due torrent not yet re-recorded has no entry or filter_time >= T + interval.
C3_RecheckSchedule ==
  cycle.filter_time >= 0 =>
    \A h \in Listed :
      /\ h \notin DOMAIN state0 => h \in Due
      /\ h \notin Due =>
           /\ h \in DOMAIN state /\ state[h] = state0[h]
           /\ cycle.filter_time < checked_at[h] + IntervalTicks
           /\ RequestsFor(h) = <<>>
           /\ h \notin Bucketed(critical_torrents) \cup Bucketed(rare_torrents)
                         \cup Bucketed(low_torrents)
      /\ (h \in Due /\ h \notin Range(Hashes(Checked)) /\ h \in DOMAIN state) =>
           cycle.filter_time >= checked_at[h] + IntervalTicks

\* FilterDue ran exactly at T + interval for a torrent, which is due.
C3_Witness ==
  /\ pc = "check"
  /\ \E h \in Due \ Range(Hashes(Checked)) :
       h \in DOMAIN state /\ cycle.filter_time = checked_at[h] + IntervalTicks

PurgeExact ==
  pc = "filter" =>
    /\ DOMAIN state = DOMAIN state0 \cap Listed
    /\ \A h \in DOMAIN state : state[h] = state0[h]

\* C6 as stated: at the end of every check cycle every key of the store is
\* an identity of that cycle's listing, and the purge step leaves exactly the
\* previous keys that are listed, unchanged.
C6_OnlyListedAsStated ==
  /\ pc = "after" => DOMAIN state \subseteq Listed
  /\ PurgeExact

\* C6 amended: at the end of every check cycle that obtained a non-empty
\* listing every key of the store is an identity of that listing (a cycle
\* whose listing is empty or failed purges nothing), and the purge step
\* leaves exactly the previous keys that are listed, unchanged.
C6_OnlyListed ==
  /\ (pc = "after" /\ torrents # <<>>) => DOMAIN state \subseteq Listed
  /\ PurgeExact

\* A cycle has ended that purged the entry of a vanished torrent.
C6_Witness ==
  /\ pc = "after" /\ torrents # <<>>
  /\ DOMAIN state0 \ Listed # {}

\* C7: when the listing is empty the cycle ends at once: nothing is purged,
\* the persisted document is not rewritten, no torrent is checked and no
\* tracker, priority or resume request is sent.
C7_EmptyListing ==
  (pc \in {"purge", "filter", "check", "prio_low", "prio_rare", "prio_critical",
           "resume_rare", "resume_critical", "save", "after"}
     /\ torrents = <<>>) =>
    /\ pc = "after"
    /\ state = state0
    /\ disk = disk0
    /\ checked_count = 0
    /\ \A k \in 1..Len(log) : log[k].op \in {"login", "info"}

\* A cycle ended on an empty listing with entries in the store.
C7_Witness ==
  /\ pc = "after" /\ torrents = <<>>
  /\ state # EmptyStore

\* C8: every cycle that obtained a non-empty listing passes through Persist:
\* when it ends, and no save failed in it, the persisted document equals the
\* in-memory store, removals of the purge step included, whether or not a
\* torrent was due. (The cycle started with the document equal to the store,
\* so a difference at its end is the cycle's own.)
C8_Persisted ==
  (pc = "after" /\ torrents # <<>> /\ disk0 = state0 /\ cycle.saved # "failed") =>
    disk = state

\* C9: whenever the session is not established (never was, or a failed
\* listing request invalidated it) the next gateway method first sends login,
\* and sends its own request only after that login succeeded; a listing
\* request that fails invalidates the session.
C9_Reauthenticates ==
  [][ /\ (~authenticated /\ Len(log') > Len(log)) =>
          /\ log'[Len(log) + 1].op = "login"
          /\ Len(log') > Len(log) + 1 =>
               \/ authenticated'
               \/ log'[Len(log')].op = "info" /\ faults' > faults
      /\ (Len(log') > Len(log) /\ log'[Len(log')].op = "info" /\ faults' > faults) =>
          ~authenticated'
    ]_vars

\* A listing request failed, and the next method logged in again before its
\* own request.
C9_Witness ==
  \E k \in 1..Len(log) :
    /\ k + 2 <= Len(log)
    /\ log[k].op = "info"
    /\ log[k + 1].op = "login"
    /\ log[k + 2].op \in {"trackers", "resume", "topPrio"}

PausedIn(bucket) ==
  Cardinality({k \in 1..Len(bucket) : bucket[k].state \in PausedStates})
\* The priority and resume calls run_check makes in a cycle.
ActionCalls ==
  (IF priorities_on
   THEN Len(low_torrents) + Len(rare_torrents) + Len(critical_torrents) ELSE 0)
  + (IF cfg.RESUME_RARE THEN PausedIn(rare_torrents) ELSE 0)
  + (IF cfg.RESUME_CRITICAL THEN PausedIn(critical_torrents) ELSE 0)

\* C10: a cycle with a due torrent reaches the final save whatever calls
\* fail; unless the shutdown flag cut it short every due torrent is recorded;
\* a torrent whose tracker query failed is recorded with no seeders found (its
\* own contribution only); the actions counted are the priority and resume
\* calls minus those that failed.
C10_FailuresAbsorbed ==
  (pc = "after" /\ torrents_to_check # <<>>) =>
    /\ cycle.ended = "complete"
    /\ cycle.saved \in {"ok", "failed"}
    /\ ~cycle.interrupted =>
         /\ checked_count = Len(torrents_to_check)
         /\ \A h \in Due : Fresh(h)
    /\ \A h \in cycle.tracker_failed :
         state[h].last_seeder_count =
           (IF Reported(h).state \in UploadingStates THEN 1 ELSE 0)
    /\ actions_taken = ActionCalls - cycle.failed_actions

\* A full cycle in which a tracker query and a priority or resume call failed.
C10_Witness ==
  /\ pc = "after" /\ cycle.ended = "complete" /\ ~cycle.interrupted
  /\ cycle.tracker_failed # {}
  /\ cycle.failed_actions > 0

\* C11: an exception raised inside a check cycle ends only that cycle: the
\* process does not exit on it unless shutdown was requested, and otherwise
\* (while the run has cycles and clock left) the idle wait and then the next
\* cycle follow.
C11_AbortOnlyCycle ==
  /\ [][(cycle.ended = "aborted" /\ pc' = "exit") => shutdown_requested]_vars
  /\ [][(cycle.ended = "aborted" /\ pc' # pc /\ ~shutdown_requested) =>
          pc' = "sleep"]_vars
  /\ (cycle.ended = "aborted" /\ cycles < MaxCycles /\ now < MaxTime)
       ~> (shutdown_requested \/ pc = "list")

\* A cycle was aborted in the middle of its checks, with no shutdown request.
C11_Witness ==
  /\ cycle.ended = "aborted" /\ pc = "after"
  /\ ~shutdown_requested
  /\ checked_count > 0 /\ checked_count < Len(torrents_to_check)
  /\ cycles < MaxCycles /\ now < MaxTime

\* C12: whatever the state file holds, startup completes with a store: the
\* empty store unless the file is a well-formed document, and then exactly the
\* entries of the document; and a save that succeeds leaves the document of
\* the store, so that the next startup loads the entries that were saved.
C12_LoadNeverFails ==
  /\ [][(pc = "startup" /\ pc' # pc) =>
          /\ pc' = "ready"
          /\ state' = (IF disk.kind = "document" THEN disk.torrents ELSE EmptyStore)
       ]_vars
  /\ [][(disk' # disk) => disk' = File("document", state)]_vars

\* The one torrent of the estimator's runs, once it is recorded.
Estimated == torrents_to_check[1]

\* C13: the estimate is the tracker-reported total if that is > 0; else the
\* connected seeders plus s if they are > 0; else the largest per-tracker
\* count if that is > 0 and otherwise s, where s is 1 for an uploading state
\* and 0 otherwise.  The trackers are asked (a request is sent) only in the
\* third case, and the estimate is never negative.
C13_FallbackChain ==
  checked_count = 1 =>
    LET t == Estimated
        s == IF t.state \in {"uploading", "stalledUP", "forcedUP"} THEN 1 ELSE 0
        reply == cycle.trackers[t.hash]
        best == IF reply = <<>> THEN 0
                ELSE CHOOSE m \in Range(reply) \cup {0} :
                       \A k \in 1..Len(reply) : reply[k] <= m
        estimate == state[t.hash].last_seeder_count
    IN /\ t.num_complete > 0 => estimate = t.num_complete
       /\ (t.num_complete <= 0 /\ t.num_seeds > 0) => estimate = t.num_seeds + s
       /\ (t.num_complete <= 0 /\ t.num_seeds <= 0) =>
            estimate = (IF best > 0 THEN best ELSE s)
       /\ (t.num_complete > 0 \/ t.num_seeds > 0) => (log = <<>> /\ reply = <<>>)
       /\ (t.num_complete <= 0 /\ t.num_seeds <= 0 /\ authenticated) =>
            Req("trackers", t.hash) \in Range(log)
       /\ estimate >= 0

\* The third case, on an uploading torrent whose trackers report nothing.
C13_Witness ==
  /\ checked_count = 1
  /\ Estimated.num_complete = -1 /\ Estimated.num_seeds = 0
  /\ Estimated.state = "uploading"
  /\ cycle.trackers["A"] = <<0, 0>>
  /\ state["A"].last_seeder_count = 1

TierRank(tier) ==
  CASE tier = "CRITICAL" -> 0 [] tier = "RARE" -> 1 [] tier = "LOW" -> 2
    [] tier = "HEALTHY" -> 3

\* C14: every count gets one of the four tiers: CRITICAL if it is at most the
\* critical threshold, else RARE if at most the rare one, else LOW if at most
\* the low one, else HEALTHY; with thresholds (1,2,5), 0 and 1 are CRITICAL,
\* 2 is RARE, 5 is LOW, 6 is HEALTHY; and with ordered thresholds a larger
\* count never gets a rarer tier.
C14_ThresholdPolicy ==
  pc = "classify" =>
    /\ \A h \in DOMAIN state :
         LET c == state[h].last_seeder_count
             tier == state[h].last_classification
         IN /\ tier \in {"CRITICAL", "RARE", "LOW", "HEALTHY"}
            /\ tier = "CRITICAL" <=> c <= cfg.CRITICAL_SEEDERS
            /\ tier = "RARE" <=> (c > cfg.CRITICAL_SEEDERS /\ c <= cfg.RARE_SEEDERS)
            /\ tier = "LOW" <=>
                 (c > cfg.CRITICAL_SEEDERS /\ c > cfg.RARE_SEEDERS
                    /\ c <= cfg.LOW_SEEDERS)
            /\ (cfg.CRITICAL_SEEDERS = 1 /\ cfg.RARE_SEEDERS = 2
                  /\ cfg.LOW_SEEDERS = 5) =>
                 tier = (CASE c \in {0, 1} -> "CRITICAL" [] c = 2 -> "RARE"
                           [] c \in {3, 4, 5} -> "LOW" [] OTHER -> "HEALTHY")
    /\ (cfg.CRITICAL_SEEDERS <= cfg.RARE_SEEDERS
          /\ cfg.RARE_SEEDERS <= cfg.LOW_SEEDERS) =>
         \A g, h \in DOMAIN state :
           state[g].last_seeder_count <= state[h].last_seeder_count =>
             TierRank(state[g].last_classification)
               <= TierRank(state[h].last_classification)

\* With thresholds (1,2,5): 5 seeders classified LOW and 6 HEALTHY.
C14_Witness ==
  /\ pc = "classify"
  /\ cfg.CRITICAL_SEEDERS = 1 /\ cfg.RARE_SEEDERS = 2 /\ cfg.LOW_SEEDERS = 5
  /\ DOMAIN state = {"A", "B"}
  /\ state["A"].last_seeder_count = 5 /\ state["A"].last_classification = "LOW"
  /\ state["B"].last_seeder_count = 6 /\ state["B"].last_classification = "HEALTHY"

\* C15: the shutdown flag, once raised, stays raised; from then on no
\* per-torrent check starts (no tracker request, no record) and no new cycle
\* starts; and the process reaches its exit.
C15_CooperativeShutdown ==
  /\ [][shutdown_requested => shutdown_requested']_vars
  /\ [][shutdown_requested =>
          /\ checked_count' <= checked_count
          /\ \A h \in DOMAIN state' : h \in DOMAIN state /\ state'[h] = state[h]
          /\ \A k \in 1..Len(log') : log'[k].op = "trackers" => k <= Len(log)
          /\ cycles' = cycles]_vars
  /\ shutdown_requested ~> (pc = "exit")

\* The flag was raised after the first of two due torrents was checked, and
\* the loop was left.
C15_Witness ==
  /\ shutdown_requested /\ cycle.interrupted
  /\ pc = "prio_low"
  /\ checked_count = 1 /\ Len(torrents_to_check) = 2

ResumeRequests == SelectSeq(log, LAMBDA r : r.op = "resume")
\* The resume requests due for the torrents checked so far that this cycle
\* classified `tier` and that were listed paused or stopped, in listing order.
ResumesOf(tier) ==
  LET due == SelectSeq(Checked, LAMBDA t :
               /\ state[t.hash].last_classification = tier
               /\ t.state \in {"pausedUP", "pausedDL", "stoppedUP", "stoppedDL"})
  IN [k \in 1..Len(due) |-> Req("resume", due[k].hash)]
ExpectedResumes ==
  (IF cfg.RESUME_RARE THEN ResumesOf("RARE") ELSE <<>>)
  \o (IF cfg.RESUME_CRITICAL THEN ResumesOf("CRITICAL") ELSE <<>>)

\* C16: in every cycle the resume requests are, once each: for the paused or
\* stopped torrents bucketed RARE if resume-on-rare is on, then for the paused
\* or stopped torrents bucketed CRITICAL if resume-on-critical is on, and no
\* others, whatever the priority toggle; every resume request follows every
\* priority request of the cycle.
C16_ResumeRule ==
  /\ pc \in {"resume_rare", "resume_critical", "save", "after"} =>
       IsPrefix(ResumeRequests, ExpectedResumes)
  /\ pc \in {"list", "purge", "filter", "check", "prio_low", "prio_rare",
             "prio_critical"} => ResumeRequests = <<>>
  /\ CycleComplete => ResumeRequests = ExpectedResumes
  /\ \A j, k \in 1..Len(log) :
       (j < k /\ log[j].op = "resume") => log[k].op = "resume"

\* A cycle resumed a stopped RARE torrent, then a paused CRITICAL one, after
\* setting priorities.
C16_Witness ==
  /\ CycleComplete /\ cfg.SET_PRIORITIES
  /\ PriorityRequests # <<>>
  /\ Len(ResumeRequests) = 2
  /\ state[ResumeRequests[1].hash].last_classification = "RARE"
  /\ state[ResumeRequests[2].hash].last_classification = "CRITICAL"
  /\ Len(torrents) = 3

\* C17: every priority or resume request of a cycle is for a torrent that was
\* checked in this cycle and classified CRITICAL, RARE or LOW: none for a
\* torrent classified HEALTHY, none for a torrent skipped as not due.
C17_OnlyBucketed ==
  \A k \in 1..Len(log) :
    log[k].op \in {"topPrio", "decreasePrio", "resume"} =>
      LET h == log[k].hash IN
        /\ h \in Range(Hashes(Checked))
        /\ checked_at[h] = now
        /\ state[h].last_classification \in {"CRITICAL", "RARE", "LOW"}

\* In a run with a failed call, a cycle skipped a torrent last classified
\* CRITICAL and sent priority requests for the other torrent.
C17_Witness ==
  /\ pc = "after" /\ cycle.ended = "complete"
  /\ faults > 0
  /\ \E h \in Listed \ Due : state[h].last_classification = "CRITICAL"
  /\ PriorityRequests # <<>>

\* The bucket and tier of the priority loop run_check is in.
LoopBucket == IF pc = "prio_low" THEN low_torrents ELSE rare_torrents
LoopTier == IF pc = "prio_low" THEN "LOW" ELSE "RARE"
StepRequests(tier, h, n) == [k \in 1..n |-> Req(StepsOf(tier)[k], h)]

\* C18: a composite priority call (RARE: top, decrease; LOW: top, decrease,
\* decrease) counts as an action iff all its steps succeeded; when step n
\* fails, steps 1..n are the only requests sent for it, the queue is as steps
\* 1..n-1 left it (the torrent at the front if the first decrease failed),
\* and the loop goes on with the next torrent: every bucketed torrent gets
\* its call.
C18_NoRollback ==
  /\ [][(pc \in {"prio_low", "prio_rare"} /\ i' = i + 1) =>
          LET h == LoopBucket[i].hash
              steps == StepsOf(LoopTier)
              sent == SubSeq(log', Len(log) + 1, Len(log'))
          IN /\ pc' = pc
             /\ IF faults' = faults
                THEN /\ sent = StepRequests(LoopTier, h, Len(steps))
                     /\ queue' = ApplyAll(queue, steps, h)
                     /\ actions_taken' = actions_taken + 1
                ELSE /\ actions_taken' = actions_taken
                     /\ \E n \in 1..Len(steps) :
                          /\ sent = StepRequests(LoopTier, h, n)
                          /\ queue' = ApplyAll(queue, SubSeq(steps, 1, n - 1), h)
                          /\ n = 2 => queue'[1] = h
       ]_vars
  /\ [](CycleComplete =>
          \A h \in Bucketed(low_torrents) \cup Bucketed(rare_torrents) :
            Req("topPrio", h) \in Range(log))

\* set_low_priority failed at its first decrease for the first LOW torrent,
\* which is at the queue front, and the cycle went on to a second one.
C18_Witness ==
  /\ pc = "prio_low" /\ i = 3
  /\ Len(low_torrents) >= 2
  /\ cycle.failed_actions = 1 /\ actions_taken = 1
  /\ SelectSeq(log, LAMBDA r : r.hash = low_torrents[1].hash)
       = StepRequests("LOW", low_torrents[1].hash, 2)

\* The torrents recorded in this cycle whose entry is not in the file.
Unpersisted ==
  {h \in Range(Hashes(Checked)) : h \notin DOMAIN disk \/ disk[h] # state[h]}

\* C19: with every save succeeding, at every point of a cycle fewer than K
\* (the checkpoint interval) entries recorded in the cycle are missing from
\* the file, and right after every K-th check the file holds the whole store.
C19_CheckpointBound ==
  /\ Cardinality(Unpersisted) < CheckpointEvery
  /\ (pc = "check" /\ checked_count > 0 /\ checked_count % CheckpointEvery = 0) =>
       disk = state
  /\ pc = "check" => Cardinality(Unpersisted) = checked_count % CheckpointEvery

\* A checkpoint has been written and one more torrent recorded since.
C19_Witness ==
  /\ pc = "check"
  /\ checked_count = CheckpointEvery + 1
  /\ Cardinality(Unpersisted) = 1
  /\ Cardinality(DOMAIN disk) = CheckpointEvery

\* C20: after a cycle that obtained a non-empty listing and was not cut short
\* by the shutdown flag, the keys of the store are exactly the listed
\* identities: each listed torrent has an entry, recorded in this cycle or
\* kept from an earlier one, and there is no other entry.
C20_KeysAreListing ==
  (pc = "after" /\ torrents # <<>> /\ ~cycle.interrupted) =>
    /\ DOMAIN state = Listed
    /\ \A h \in Listed :
         IF h \in Due THEN Fresh(h)
         ELSE h \in DOMAIN state0 /\ state[h] = state0[h]

\* A cycle kept the entry of one torrent and recorded another for the first
\* time.
C20_Witness ==
  /\ pc = "after" /\ cycle.ended = "complete" /\ ~cycle.interrupted
  /\ \E g \in Listed \ Due : g \in DOMAIN state
  /\ \E h \in Due : h \notin DOMAIN state0 /\ h \in DOMAIN state

\* C21: a cycle whose check loop was cut short by the shutdown flag still
\* runs its priority and resume loops and its final save: every torrent it
\* recorded and classified CRITICAL, RARE or LOW gets its priority call, and
\* its resume if it is paused or stopped and RARE or CRITICAL (all the
\* requests of the tiers' sequences when no call fails), and these requests
\* are sent while the flag is raised.
C21_CancelledCycleActs ==
  /\ []((pc = "after" /\ cycle.interrupted) =>
          /\ cycle.ended = "complete"
          /\ cycle.saved \in {"ok", "failed"}
          /\ \A k \in 1..Len(Checked) :
               LET t == Checked[k]
                   tier == state[t.hash].last_classification
               IN /\ tier \in {"CRITICAL", "RARE", "LOW"} =>
                       Req("topPrio", t.hash) \in Range(log)
                  /\ (tier \in {"CRITICAL", "RARE"}
                        /\ t.state \in {"pausedUP", "pausedDL", "stoppedUP",
                                        "stoppedDL"}) =>
                       Req("resume", t.hash) \in Range(log)
          /\ cycle.clean =>
               /\ PriorityRequests = ExpectedPriorityRequests
               /\ ResumeRequests = ExpectedResumes)
  /\ [][(cycle.interrupted /\ Len(log') > Len(log)) =>
          /\ shutdown_requested
          /\ log'[Len(log')].op \in {"topPrio", "decreasePrio", "resume"}]_vars

\* The flag was raised after two of three due torrents, a LOW and a CRITICAL
\* one; both got their requests, and the cycle saved.
C21_Witness ==
  /\ pc = "after" /\ cycle.interrupted /\ cycle.saved = "ok"
  /\ checked_count = 2 /\ Len(torrents_to_check) = 3
  /\ Len(low_torrents) = 1 /\ Len(critical_torrents) = 1
  /\ Len(PriorityRequests) = 4
  /\ Len(ResumeRequests) = 1

====
